---- MODULE Spec2Model ----
(***************************************************************************)
(* State-machine model of BIC-MOBO: the three resolution functions         *)
(*   CalculateHitAngReso   (src/objectives/BICHitAngReso.py)               *)
(*   CalculateClustEneReso (src/objectives/BICClustEneReso.py)             *)
(*   CalculateClustAngReso (src/objectives/BICClustAngReso.py)             *)
(* the command-line entry points (__main__) of the same files, and the     *)
(* optimization driver (src/panda-idds-bic-mobo-simple.py).                *)
(* One run of one function, script or driver is one behaviour.  The event  *)
(* stream, the associations of an event and the hits of a cluster are      *)
(* produced one element at a time by the reader, so each loop iteration    *)
(* is one action.                                                          *)
(*                                                                         *)
(* Units.  Abscissae of a histogram are integers counted in bin widths of  *)
(* that histogram: 0.005 for hAngRes of the hit function (80 bins on       *)
(* [-0.2, 0.2]), 0.1 for hEneRes/hAngRes of the cluster functions (50 bins *)
(* on [-2, 3]).  Angles of the cluster-angle function are counted in units *)
(* of the machine epsilon, the only scale its code refers to.              *)
(***************************************************************************)
EXTENDS Integers, Sequences, FiniteSets, TLC

\* ------------------------------------------------------------------ bounds
MaxEvents == 2
MaxPars == 2
MaxAssocs == 2
MaxHits == 2
MaxStream == 3

\* -------------------------------------------------------- program constants
PDGDefault == 11
MaxLayer == 6
Unset == -999
NBinsDiff == 80
XminDiff == -40
XmaxDiff == 40
NBinsRes == 50
XminRes == -20
XmaxRes == 30
ResUnit == 10
FitLoRes == -5
FitHiRes == 5
Eps == 1

\* the species the run looks for (argument pdg, at its default)
pdg == PDGDefault

\* ------------------------------------------------------------ input domains
Funcs == {"HitAng", "ClustEne", "ClustAng"}

\* coordinate selectors a caller may pass, before sanitization
CoordInputs == {"ETA", "theta", "r"}

\* truth particles an event of a run of f may hold
Particles(f) ==
  LET P(c, s, a, e) == [pdg |-> c, status |-> s, angle |-> a, energy |-> e]
  IN  CASE f = "HitAng"   -> {P(11, 1, 0, 1), P(11, 1, 1, 1), P(11, 1, 41, 1),
                              P(11, 2, 0, 1), P(22, 1, 0, 1)}
        [] f = "ClustEne" -> {P(11, 1, 0, 1), P(11, 1, 0, 2), P(11, 2, 0, 1), P(22, 1, 0, 1)}
        [] f = "ClustAng" -> {P(11, 1, -2, 1), P(11, 1, 0, 1), P(11, 2, 0, 1), P(22, 1, 0, 1)}

\* imaging hits a cluster may hold
Hits == [layer : {0, 1, 6, 7}, energy : {0, 1, 2}, angle : {0}]

\* reconstructed cluster energies / angles
ClustEnergies == {1, 2, 8}
ClustAngles == {0, 8}

\* values the external fit / root finder may hand back
FitVals == {-1, 12}
FitErrs == {3}

\* output paths, split so that the suffix ".root" is one token
OFiles == {<<"test_reso", ".root">>, <<"test_reso", ".dat">>}

SeqsUpTo(S, n) == UNION {[1..k -> S] : k \in 0..n}

EmptyFn == [x \in {} |-> 0]

\* ------------------------------------------------------------------- state
VARIABLES
  fn, coord, pc, err, reader, nframes,
  mcpars, primary, pinfo, maxenes, maxhits, cluster, nassoc, sims, hits,
  minlayer, hinfo, asim, nfill,
  hdiff, hres, hpar, heff, hclust, hmax, hlay, warned,
  fitrange, fit, fwhm, ofile, files, retval,
  argv, args, call,
  drv,
  stream, perm, runA, runB

cfgVars == <<fn, coord>>
evtVars == <<mcpars, primary, pinfo, maxenes, maxhits, cluster, nassoc, sims, hits,
             minlayer, hinfo, asim, nfill>>
histVars == <<hdiff, hres, hpar, heff, hclust, hmax, hlay>>
outVars == <<fitrange, fit, fwhm, ofile, files, retval>>
vars == <<fn, coord, pc, err, reader, nframes,
          mcpars, primary, pinfo, maxenes, maxhits, cluster, nassoc, sims, hits,
          minlayer, hinfo, asim, nfill,
          hdiff, hres, hpar, heff, hclust, hmax, hlay, warned,
          fitrange, fit, fwhm, ofile, files, retval,
          argv, args, call, drv, stream, perm, runA, runB>>

\* the state of a function run but for fn, pc and err
runVars == <<coord, reader, nframes, evtVars, histVars, warned, outVars>>
\* the command line of a script, the driver, the replay of a permuted stream
mainVars == <<argv, args, call>>
ordVars == <<stream, perm, runA, runB>>

\* ------------------------------------------------------------- sanitization
\* str.lower() on the selectors of CoordInputs
Lower(s) ==
  CASE s = "ETA" -> "eta"
    [] s = "PHI" -> "phi"
    [] s = "THETA" -> "theta"
    [] OTHER -> s

\* the cases of the match statement that do not raise (a catch-all case that
\* does not raise would accept every selector of CoordInputs)
HitCoordsAny == {"theta", "eta", "phi", "r"}
HitCoords == {"theta", "eta", "phi"}

AngCoords == {"eta", "phi"}

\* Info() as constructed by the dataclass defaults
Info == [energy |-> Unset, angle |-> Unset, layer |-> Unset]

\* ----------------------------------------------------------------- histogram
\* A histogram is the function from its touched bins to their contents;
\* bin 0 is underflow, bin nbins + 1 overflow.
Fill(h, b) == IF b \in DOMAIN h THEN [h EXCEPT ![b] = @ + 1] ELSE (b :> 1) @@ h

RECURSIVE SumOver(_, _)
SumOver(h, S) ==
  IF S = {} THEN 0
  ELSE LET b == CHOOSE x \in S : TRUE IN h[b] + SumOver(h, S \ {b})

\* TH1::GetEntries
Entries(h) == SumOver(h, DOMAIN h)

\* TAxis::FindBin for an abscissa x counted in bin widths
FindBin(x, xmin, xmax, nbins) ==
  IF x < xmin THEN 0
  ELSE IF x >= xmax THEN nbins + 1
  ELSE 1 + (x - xmin)

\* floor(num / den) for den > 0
FloorDiv(num, den) ==
  IF num >= 0 THEN num \div den ELSE -(((-num) + den - 1) \div den)

\* TAxis::FindBin for the ratio num / den (den # 0) of a relative residual
FindBinRatio(num, den, xmin, xmax, nbins) ==
  LET n == IF den < 0 THEN -num ELSE num
      d == IF den < 0 THEN -den ELSE den
  IN  IF ResUnit * n < xmin * d THEN 0
      ELSE IF ResUnit * n >= xmax * d THEN nbins + 1
      ELSE 1 + FloorDiv(ResUnit * n - xmin * d, d)

Min(S) == CHOOSE x \in S : \A y \in S : x <= y
Max(S) == CHOOSE x \in S : \A y \in S : x >= y

\* bins 1..nbins with content above 0
Populated(h, nbins) == {b \in DOMAIN h : b >= 1 /\ b <= nbins /\ h[b] > 0}

\* TH1::FindFirstBinAbove(0.0) / TH1::FindLastBinAbove(0.0): -1 when none
FindFirstBinAbove(h, nbins) ==
  IF Populated(h, nbins) = {} THEN -1 ELSE Min(Populated(h, nbins))
FindLastBinAbove(h, nbins) ==
  IF Populated(h, nbins) = {} THEN -1 ELSE Max(Populated(h, nbins))

\* TAxis::GetBinLowEdge, also for bins outside 1..nbins
GetBinLowEdge(bin, xmin) == xmin + (bin - 1)

\* ---------------------------------------------------------------------- init
\* values of the variables of a part of the program that is not running
NoCall == [callee |-> "none", pos |-> <<>>]
DrvOff == [pc |-> "off", env |-> "none", did |-> <<>>]
NoRun == [out |-> "none", n |-> 0]

\* no function has run
RunIdle ==
  /\ reader = "closed"
  /\ nframes = 0
  /\ mcpars = <<>>
  /\ primary = 0
  /\ pinfo = Info
  /\ maxenes = EmptyFn
  /\ maxhits = EmptyFn
  /\ cluster = 0
  /\ nassoc = 0
  /\ sims = <<>>
  /\ hits = <<>>
  /\ minlayer = Unset
  /\ hinfo = Info
  /\ asim = Unset
  /\ nfill = 0
  /\ hdiff = EmptyFn
  /\ hres = EmptyFn
  /\ hpar = 0
  /\ heff = 0
  /\ hclust = 0
  /\ hmax = 0
  /\ hlay = 0
  /\ warned = [primary |-> 0, layer |-> 0]
  /\ fitrange = <<0, 0>>
  /\ fit = [reso |-> 0, eres |-> 0, mean |-> 0, emea |-> 0]
  /\ fwhm = 0
  /\ ofile = <<>>
  /\ files = EmptyFn
  /\ retval = Unset

\* no command line was read, the driver is not running, no stream is replayed
MainIdle == argv = EmptyFn /\ args = EmptyFn /\ call = NoCall
DrvIdle == drv = DrvOff
OrdIdle == stream = <<>> /\ perm = <<>> /\ runA = NoRun /\ runB = NoRun

\* a resolution function is about to be called with a coordinate selector
InitCalc ==
  /\ fn \in Funcs
  /\ coord \in (IF fn = "ClustEne" THEN {"none"} ELSE CoordInputs)
  /\ pc = "start"
  /\ err = "none"
  /\ RunIdle
  /\ MainIdle
  /\ DrvIdle
  /\ OrdIdle

\* ------------------------------------------------- CalculateHitAngReso: setup
\* sanitize the selector, pick the axis variable or raise, open the reader
HitSetup ==
  /\ fn = "HitAng"
  /\ pc = "start"
  /\ coord' = Lower(coord)
  /\ IF coord' \in HitCoords
       THEN pc' = "loop" /\ reader' = "open" /\ err' = err
       ELSE pc' = "raised" /\ err' = "ValueError" /\ reader' = reader
  /\ UNCHANGED <<fn, nframes, evtVars, histVars, warned, outVars>>
  /\ UNCHANGED <<mainVars, drv, ordVars>>

\* ------------------------------------------- CalculateHitAngReso: event loop
\* Info._SetAngle: the selectors its match statement accepts
SetAngleOK(c) == c \in {"theta", "eta", "phi"}

\* index of the first particle with the target species and generator status 1,
\* 0 (None) when there is none
FindPrimary(pars) ==
  LET ok == {i \in DOMAIN pars : pars[i].pdg = pdg /\ pars[i].status = 1}
  IN  IF ok = {} THEN 0 ELSE Min(ok)

\* the per-layer table of maximum energies as built at the top of an event
InitMaxenes == [l \in 1..MaxLayer |-> 0]

\* one iteration of the hit loop with no layer rejection and a table that
\* accepts any key (a bug the layer claims must detect)
ScanHitNoReject(tbl, hit) ==
  LET cur == IF hit.layer \in DOMAIN tbl.maxenes THEN tbl.maxenes[hit.layer] ELSE 0
  IN  IF hit.energy > cur
        THEN [maxenes |-> (hit.layer :> hit.energy) @@ tbl.maxenes,
              maxhits |-> (hit.layer :> hit) @@ tbl.maxhits,
              out |-> "ok"]
        ELSE [tbl EXCEPT !.out = "ok"]

\* one iteration of the hit loop on the tables tbl = [maxenes, maxhits]:
\* out is "warn" for a rejected layer, "KeyError" for a layer the table does
\* not hold, "ok" otherwise
ScanHit(tbl, hit) ==
  IF hit.layer > MaxLayer
    THEN [tbl EXCEPT !.out = "warn"]
  ELSE IF hit.layer \notin DOMAIN tbl.maxenes
    THEN [tbl EXCEPT !.out = "KeyError"]
  ELSE IF hit.energy > tbl.maxenes[hit.layer]
    THEN [maxenes |-> [tbl.maxenes EXCEPT ![hit.layer] = hit.energy],
          maxhits |-> (hit.layer :> hit) @@ tbl.maxhits,
          out |-> "ok"]
  ELSE [tbl EXCEPT !.out = "ok"]

\* Info.SetHitInfo on the stored hit of the most upstream stored layer
SelectHit(mh) ==
  LET ml == Min(DOMAIN mh)
  IN  [energy |-> mh[ml].energy, angle |-> mh[ml].angle, layer |-> mh[ml].layer]

\* next frame of the reader: pick out the primary, skip the frame without one,
\* else fill the particle histogram and reset the per-layer tables.
\* minlayer and hinfo are written before they are read in every iteration, so
\* a frame starts from their unset values; nassoc, sims, hits, nfill and
\* warned record what the current frame has iterated, filled and printed so far.
HitReadFrame ==
  /\ fn = "HitAng"
  /\ pc = "loop"
  /\ nframes < MaxEvents
  /\ \E pars \in SeqsUpTo(Particles(fn), MaxPars) :
       /\ mcpars' = pars
       /\ primary' = FindPrimary(pars)
       /\ nframes' = nframes + 1
       /\ nassoc' = 0
       /\ sims' = <<>>
       /\ hits' = <<>>
       /\ nfill' = 0
       /\ minlayer' = Unset
       /\ hinfo' = Info
       /\ IF primary' = 0
            THEN /\ warned' = [primary |-> 1, layer |-> 0]
                 /\ pc' = "loop"
                 /\ UNCHANGED <<err, pinfo, hpar, maxenes, maxhits, cluster>>
          ELSE IF ~SetAngleOK(coord)
            THEN /\ pc' = "raised"
                 /\ err' = "ValueError"
                 /\ warned' = [primary |-> 0, layer |-> 0]
                 /\ UNCHANGED <<pinfo, hpar, maxenes, maxhits, cluster>>
          ELSE /\ pinfo' = [Info EXCEPT !.energy = pars[primary'].energy,
                                        !.angle = pars[primary'].angle]
               /\ hpar' = hpar + 1
               /\ maxenes' = InitMaxenes
               /\ maxhits' = EmptyFn
               /\ cluster' = 0
               /\ pc' = "assocs"
               /\ warned' = [primary |-> 0, layer |-> 0]
               /\ err' = err
  /\ UNCHANGED <<cfgVars, reader, asim,
                 hdiff, hres, heff, hclust, hmax, hlay, outVars>>
  /\ UNCHANGED <<mainVars, drv, ordVars>>

\* a match of two truth particles by their field values
SameValue(p, s) == mcpars[p] = mcpars[s]

\* primary == assoc.getSim(): both handles refer to the same particle of the
\* collection (a handle is the particle's index)
SameParticle(p, s) == p = s

\* next association of the frame: one that does not reference the primary is
\* passed over, one that does sets the cluster and starts its hit loop
HitNextAssoc ==
  /\ fn = "HitAng"
  /\ pc = "assocs"
  /\ nassoc < MaxAssocs
  /\ \E sim \in DOMAIN mcpars :
       /\ nassoc' = nassoc + 1
       /\ sims' = Append(sims, sim)
       /\ IF ~SameParticle(primary, sim)
            THEN UNCHANGED <<pc, cluster>>
            ELSE cluster' = nassoc' /\ pc' = "hits"
  /\ UNCHANGED <<cfgVars, err, reader, nframes, mcpars, primary, pinfo, maxenes,
                 maxhits, hits, minlayer, hinfo, asim, nfill, histVars, warned,
                 outVars>>
  /\ UNCHANGED <<mainVars, drv, ordVars>>

\* next hit of the matched cluster
HitNextHit ==
  /\ fn = "HitAng"
  /\ pc = "hits"
  /\ Len(hits) < MaxHits
  /\ \E hit \in Hits :
       LET r == ScanHit([maxenes |-> maxenes, maxhits |-> maxhits, out |-> "ok"], hit)
       IN  /\ hits' = Append(hits, hit)
           /\ maxenes' = r.maxenes
           /\ maxhits' = r.maxhits
           /\ warned' = IF r.out = "warn" THEN [warned EXCEPT !.layer = @ + 1] ELSE warned
           /\ IF r.out = "KeyError"
                THEN pc' = "raised" /\ err' = "KeyError"
                ELSE UNCHANGED <<pc, err>>
  /\ UNCHANGED <<cfgVars, reader, nframes, mcpars, primary, pinfo, cluster, nassoc, sims,
                 minlayer, hinfo, asim, nfill, histVars, outVars>>
  /\ UNCHANGED <<mainVars, drv, ordVars>>

\* the hits of the matched cluster are exhausted
HitEndHits ==
  /\ fn = "HitAng"
  /\ pc = "hits"
  /\ pc' = "assocs"
  /\ UNCHANGED <<cfgVars, err, reader, nframes, evtVars, histVars, warned, outVars>>
  /\ UNCHANGED <<mainVars, drv, ordVars>>

\* a fill that adds no entry
EffFillNone(n) == n

\* heff.Fill(pinfo.energy): one more entry in the efficiency numerator
EffFill(n) == n + 1

\* the associations of the frame are exhausted: skip the frame without a
\* cluster, else fill the efficiency histograms, take the most upstream
\* stored layer (min() of no keys raises) and fill the residual
HitEndAssocs ==
  /\ fn = "HitAng"
  /\ pc = "assocs"
  /\ IF cluster = 0
       THEN /\ pc' = "loop"
            /\ UNCHANGED <<err, heff, hclust, minlayer, hinfo, hdiff, hmax, hlay, nfill>>
     ELSE IF DOMAIN maxhits = {}
       THEN /\ heff' = EffFill(heff)
            /\ hclust' = hclust + 1
            /\ pc' = "raised"
            /\ err' = "ValueError"
            /\ UNCHANGED <<minlayer, hinfo, hdiff, hmax, hlay, nfill>>
     ELSE /\ heff' = EffFill(heff)
          /\ hclust' = hclust + 1
          /\ minlayer' = Min(DOMAIN maxhits)
          /\ hinfo' = SelectHit(maxhits)
          /\ hdiff' = Fill(hdiff, FindBin(hinfo'.angle - pinfo.angle,
                                          XminDiff, XmaxDiff, NBinsDiff))
          /\ hmax' = hmax + 1
          /\ hlay' = hlay + 1
          /\ nfill' = nfill + 1
          /\ pc' = "loop"
          /\ err' = err
  /\ UNCHANGED <<cfgVars, reader, nframes, mcpars, primary, pinfo, maxenes, maxhits,
                 cluster, nassoc, sims, hits, asim, hres, hpar, warned, outVars>>
  /\ UNCHANGED <<mainVars, drv, ordVars>>

\* ------------------------------------------------------ text summary format
DigitChars == <<"0", "1", "2", "3", "4", "5", "6", "7", "8", "9">>

RECURSIVE Digits(_)
Digits(n) ==
  IF n < 10 THEN <<DigitChars[n + 1]>>
  ELSE Digits(n \div 10) \o <<DigitChars[(n % 10) + 1]>>

\* f"{x}" for a float x of integral value: sign, digits, ".0"
Format(x) ==
  (IF x < 0 THEN <<"-">> \o Digits(-x) ELSE Digits(x)) \o <<".", "0">>

\* ofile.replace(".root", ".txt"): every occurrence of the token is replaced
Replace(path) == [i \in DOMAIN path |-> IF path[i] = ".root" THEN ".txt" ELSE path[i]]

\* the characters of a text up to its first newline
RECURSIVE FirstLine(_)
FirstLine(text) ==
  IF text = <<>> \/ Head(text) = "\n" THEN <<>>
  ELSE <<Head(text)>> \o FirstLine(Tail(text))

RECURSIVE ParseNat(_, _)
ParseNat(cs, acc) ==
  IF cs = <<>> \/ Head(cs) = "." THEN acc
  ELSE ParseNat(Tail(cs),
                10 * acc + ((CHOOSE d \in 1..10 : DigitChars[d] = Head(cs)) - 1))

\* float(line) for a line written by Format
Parse(line) ==
  IF line # <<>> /\ Head(line) = "-" THEN -ParseNat(Tail(line), 0)
  ELSE ParseNat(line, 0)

\* ---------------------------------------------- CalculateHitAngReso: fit, save
\* the range handed to TH1::Fit: low edge of the first bin above 0, low edge of
\* the bin after the last bin above 0 (GetBinLowEdge(ilast) would be a bug)
HitFitRangeShort(h) ==
  <<GetBinLowEdge(FindFirstBinAbove(h, NBinsDiff), XminDiff),
    GetBinLowEdge(FindLastBinAbove(h, NBinsDiff), XminDiff)>>

HitFitRange(h) ==
  <<GetBinLowEdge(FindFirstBinAbove(h, NBinsDiff), XminDiff),
    GetBinLowEdge(FindLastBinAbove(h, NBinsDiff) + 1, XminDiff)>>

\* the reader is exhausted: fit over the nonzero bins and take the full width
\* at half maximum from the two roots the fitted function hands back
\* (heff.Divide rescales bin contents and adds no entry; heff counts fills)
HitFit ==
  /\ fn = "HitAng"
  /\ pc = "loop"
  /\ fitrange' = HitFitRange(hdiff)
  /\ \E lo \in {-1}, hi \in FitVals : fwhm' = hi - lo
  /\ pc' = "save"
  /\ UNCHANGED <<cfgVars, err, reader, nframes, evtVars, histVars, warned,
                 fit, ofile, files, retval>>
  /\ UNCHANGED <<mainVars, drv, ordVars>>

\* the text summary of the hit function: one line
HitSummary(w) == Format(w) \o <<"\n">>

\* write the objects, then the text summary, and return the width
HitSave ==
  /\ fn = "HitAng"
  /\ pc = "save"
  /\ \E of \in OFiles :
       /\ ofile' = of
       /\ files' = (Replace(of) :> HitSummary(fwhm)) @@ (of :> <<"fAngRes", "hAngRes">>)
  /\ retval' = fwhm
  /\ pc' = "done"
  /\ UNCHANGED <<cfgVars, err, reader, nframes, evtVars, histVars, warned,
                 fitrange, fit, fwhm>>
  /\ UNCHANGED <<mainVars, drv, ordVars>>

\* ------------------------------------------------ cluster functions: shared
\* CalculateClustEneReso and CalculateClustAngReso run the same frame loop,
\* fit and save around their own residual.

\* next frame of the reader
ClustReadFrame ==
  /\ pc = "loop"
  /\ nframes < MaxEvents
  /\ \E pars \in SeqsUpTo(Particles(fn), MaxPars) : mcpars' = pars
  /\ nframes' = nframes + 1
  /\ nassoc' = 0
  /\ sims' = sims
  /\ nfill' = 0
  /\ pc' = "assocs"
  /\ UNCHANGED <<cfgVars, err, reader, primary, pinfo, maxenes, maxhits, cluster,
                 hits, minlayer, hinfo, asim, histVars, warned, outVars>>
  /\ UNCHANGED <<mainVars, drv, ordVars>>

\* the associations of the frame are exhausted
ClustEndAssocs ==
  /\ pc = "assocs"
  /\ pc' = "loop"
  /\ UNCHANGED <<cfgVars, err, reader, nframes, evtVars, histVars, warned, outVars>>
  /\ UNCHANGED <<mainVars, drv, ordVars>>

\* the range of the fit: option "r" takes the range of the TF1, whatever the
\* histogram holds
ClustFitRange(h) == <<FitLoRes, FitHiRes>>

\* the reader is exhausted: fit the gaussian
ClustFit ==
  /\ pc = "loop"
  /\ fitrange' = ClustFitRange(hres)
  /\ fit' \in [reso : FitVals, eres : FitErrs, mean : FitVals, emea : FitErrs]
  /\ pc' = "save"
  /\ UNCHANGED <<cfgVars, err, reader, nframes, evtVars, histVars, warned,
                 fwhm, ofile, files, retval>>
  /\ UNCHANGED <<mainVars, drv, ordVars>>

\* the text summary of a cluster function: width, its error, mean, its error
\* (a bug would write the mean first)
ClustSummaryMeanFirst(f) ==
  Format(f.mean) \o <<"\n">> \o Format(f.emea) \o <<"\n">> \o
  Format(f.reso) \o <<"\n">> \o Format(f.eres)
ClustSummary(f) ==
  Format(f.reso) \o <<"\n">> \o Format(f.eres) \o <<"\n">> \o
  Format(f.mean) \o <<"\n">> \o Format(f.emea)

\* write the objects, then the text summary, and return the width parameter
ClustSave ==
  /\ pc = "save"
  /\ \E of \in OFiles :
       /\ ofile' = of
       /\ files' = (Replace(of) :> ClustSummary(fit)) @@ (of :> <<"hRes", "fRes">>)
  /\ retval' = fit.reso
  /\ pc' = "done"
  /\ UNCHANGED <<cfgVars, err, reader, nframes, evtVars, histVars, warned,
                 fitrange, fit, fwhm>>
  /\ UNCHANGED <<mainVars, drv, ordVars>>

\* ---------------------------------------------------- CalculateClustEneReso
\* create the histogram and open the reader
EneSetup ==
  /\ fn = "ClustEne"
  /\ pc = "start"
  /\ pc' = "loop"
  /\ reader' = "open"
  /\ UNCHANGED <<cfgVars, err, nframes, evtVars, histVars, warned, outVars>>
  /\ UNCHANGED <<mainVars, drv, ordVars>>

EneReadFrame == fn = "ClustEne" /\ ClustReadFrame

\* next association: one of another species is passed over, one of the target
\* species fills (E_clust - E_par) / E_par
EneNextAssoc ==
  /\ fn = "ClustEne"
  /\ pc = "assocs"
  /\ nassoc < MaxAssocs
  /\ nassoc' = nassoc + 1
  /\ sims' = sims
  /\ \E sim \in DOMAIN mcpars, erec \in ClustEnergies :
       IF mcpars[sim].pdg # pdg
         THEN UNCHANGED <<hres, nfill>>
         ELSE LET esim == mcpars[sim].energy
              IN  /\ hres' = Fill(hres, FindBinRatio(erec - esim, esim,
                                                     XminRes, XmaxRes, NBinsRes))
                  /\ nfill' = nfill + 1
  /\ UNCHANGED <<cfgVars, pc, err, reader, nframes, mcpars, primary, pinfo, maxenes,
                 maxhits, cluster, hits, minlayer, hinfo, asim,
                 hdiff, hpar, heff, hclust, hmax, hlay, warned, outVars>>
  /\ UNCHANGED <<mainVars, drv, ordVars>>

EneEndAssocs == fn = "ClustEne" /\ ClustEndAssocs
EneFit == fn = "ClustEne" /\ ClustFit
EneSave == fn = "ClustEne" /\ ClustSave

\* ---------------------------------------------------- CalculateClustAngReso
\* sanitize the selector, pick the axis variable or raise, create the
\* histogram and open the reader
AngSetup ==
  /\ fn = "ClustAng"
  /\ pc = "start"
  /\ coord' = Lower(coord)
  /\ IF coord' \in AngCoords
       THEN pc' = "loop" /\ reader' = "open" /\ err' = err
       ELSE pc' = "raised" /\ err' = "ValueError" /\ reader' = reader
  /\ UNCHANGED <<fn, nframes, evtVars, histVars, warned, outVars>>
  /\ UNCHANGED <<mainVars, drv, ordVars>>

AngReadFrame == fn = "ClustAng" /\ ClustReadFrame

\* the selectors the match statements inside the loop accept
AngMatchOK(c) == c \in {"eta", "phi"}

\* the truth angle as used for the denominator (leaving it as it is would be
\* the bug the perturbation guards against)
PerturbNone(a) == a
Perturb(a) == IF a = 0 THEN a + Eps ELSE a

\* next association: one of another species is passed over, one of the target
\* species fills (a_clust - a_par) / a_par
AngNextAssoc ==
  /\ fn = "ClustAng"
  /\ pc = "assocs"
  /\ nassoc < MaxAssocs
  /\ nassoc' = nassoc + 1
  /\ sims' = sims
  /\ \E sim \in DOMAIN mcpars, arec \in ClustAngles :
       IF mcpars[sim].pdg # pdg
         THEN UNCHANGED <<pc, err, asim, hres, nfill>>
       ELSE IF ~AngMatchOK(coord)
         THEN pc' = "raised" /\ err' = "ValueError" /\ UNCHANGED <<asim, hres, nfill>>
       ELSE /\ asim' = Perturb(mcpars[sim].angle)
            /\ IF asim' = 0
                 THEN pc' = "raised" /\ err' = "ZeroDivisionError"
                      /\ UNCHANGED <<hres, nfill>>
                 ELSE /\ hres' = Fill(hres, FindBinRatio(arec - asim', asim',
                                                        XminRes, XmaxRes, NBinsRes))
                      /\ nfill' = nfill + 1
                      /\ UNCHANGED <<pc, err>>
  /\ UNCHANGED <<cfgVars, reader, nframes, mcpars, primary, pinfo, maxenes,
                 maxhits, cluster, hits, minlayer, hinfo,
                 hdiff, hpar, heff, hclust, hmax, hlay, warned, outVars>>
  /\ UNCHANGED <<mainVars, drv, ordVars>>

AngEndAssocs == fn = "ClustAng" /\ ClustEndAssocs
AngFit == fn = "ClustAng" /\ ClustFit
AngSave == fn = "ClustAng" /\ ClustSave

\* ------------------------------------------------------------ specifications
NextHitAng ==
  \/ HitSetup
  \/ HitReadFrame
  \/ HitNextAssoc
  \/ HitNextHit
  \/ HitEndHits
  \/ HitEndAssocs
  \/ HitFit
  \/ HitSave

NextClustEne ==
  \/ EneSetup
  \/ EneReadFrame
  \/ EneNextAssoc
  \/ EneEndAssocs
  \/ EneFit
  \/ EneSave

NextClustAng ==
  \/ AngSetup
  \/ AngReadFrame
  \/ AngNextAssoc
  \/ AngEndAssocs
  \/ AngFit
  \/ AngSave

\* one function at a time
InitHitAng == InitCalc /\ fn = "HitAng"
InitClustEne == InitCalc /\ fn = "ClustEne"
InitClustAng == InitCalc /\ fn = "ClustAng"

SpecHitAng == InitHitAng /\ [][NextHitAng]_vars
SpecClustEne == InitClustEne /\ [][NextClustEne]_vars
SpecClustAng == InitClustAng /\ [][NextClustAng]_vars

\* ------------------------------------------------- __main__ of the scripts
\* the flags of a script's parser, in the order of the parameters of its
\* resolution function that they are meant for
Flags(f) ==
  CASE f = "HitAng"   -> <<"input", "output", "coordinate", "pdg",
                           "rechits", "mcpars", "assocs">>
    [] f = "ClustEne" -> <<"input", "output", "pdg", "branch">>
    [] f = "ClustAng" -> <<"input", "output", "coordinate", "pdg", "branch">>

\* default = and const = of a flag
FlagDefault(f, flag) ==
  CASE flag = "input"      -> "IFileDefault"
    [] flag = "output"     -> "test_reso.root"
    [] flag = "coordinate" -> IF f = "HitAng" THEN "eta" ELSE "phi"
    [] flag = "pdg"        -> "11"
    [] flag = "rechits"    -> "EcalBarrelImagingRecHits"
    [] flag = "mcpars"     -> "MCParticles"
    [] flag = "assocs"     -> "EcalBarrelImagingClusterAssociations"
    [] flag = "branch"     -> "EcalBarrelClusterAssociations"

\* the value a command line gives to a flag when it gives one
FlagGiven(flag) ==
  CASE flag = "input"      -> "in.root"
    [] flag = "output"     -> "out.root"
    [] flag = "coordinate" -> "theta"
    [] flag = "pdg"        -> "22"
    [] flag = "rechits"    -> "MyRecHits"
    [] flag = "mcpars"     -> "MyParticles"
    [] flag = "assocs"     -> "MyAssociations"
    [] flag = "branch"     -> "MyClusterAssociations"

FlagSet(f) == {Flags(f)[i] : i \in DOMAIN Flags(f)}

\* a flag is absent, given bare (nargs = '?') or given with a value
ArgvOf(f) == [FlagSet(f) -> {"absent", "bare", "value"}]

\* parser.parse_args(): default when absent, const when bare
ParseArgs(f, av) ==
  [flag \in FlagSet(f) |->
     IF av[flag] = "value" THEN FlagGiven(flag) ELSE FlagDefault(f, flag)]

\* the names a script defines at module level that a call may resolve to
Defined(f) ==
  CASE f = "HitAng"   -> {"CalculateHitAngReso"}
    [] f = "ClustEne" -> {"CalculateClustEneReso"}
    [] f = "ClustAng" -> {"CalculateClustAngReso"}

\* the call statement of __main__: the name called and the flags whose parsed
\* values it passes, in positional order
CallStmt(f) ==
  CASE f = "HitAng"   -> [callee |-> "CalculateHitAngReso",
                           pos |-> <<"input", "output", "coordinate", "pdg",
                                     "rechits", "mcpars", "assocs">>]
    [] f = "ClustEne" -> [callee |-> "CalculateEneReso",
                           pos |-> <<"input", "output", "pdg">>]
    [] f = "ClustAng" -> [callee |-> "CalculateAngReso",
                           pos |-> <<"input", "output", "coordinate", "pdg">>]

\* the values the parameters of the resolution function of f take under the
\* call c: positional values first, the parameter's default for the rest
Bound(f, c) ==
  [i \in DOMAIN Flags(f) |->
     IF i <= Len(c.pos) THEN c.pos[i] ELSE FlagDefault(f, Flags(f)[i])]

\* a script is started from the command line
InitMain ==
  /\ fn \in Funcs
  /\ coord = (IF fn = "ClustEne" THEN "none" ELSE FlagDefault(fn, "coordinate"))
  /\ pc = "main"
  /\ err = "none"
  /\ RunIdle
  /\ argv \in ArgvOf(fn)
  /\ args = EmptyFn
  /\ call = NoCall
  /\ DrvIdle
  /\ OrdIdle

\* args = parser.parse_args()
DoParseArgs(f) ==
  /\ pc = "main"
  /\ args' = ParseArgs(f, argv)
  /\ pc' = "parsed"
  /\ UNCHANGED <<fn, err, runVars, argv, call, drv, ordVars>>

\* the call of the resolution function: NameError when the name is not defined
DoCall(f) ==
  /\ pc = "parsed"
  /\ call' = [callee |-> CallStmt(f).callee,
              pos |-> [i \in DOMAIN CallStmt(f).pos |-> args[CallStmt(f).pos[i]]]]
  /\ IF CallStmt(f).callee \in Defined(f)
       THEN pc' = "called" /\ err' = err
       ELSE pc' = "raised" /\ err' = "NameError"
  /\ UNCHANGED <<fn, runVars, argv, args, drv, ordVars>>

HitParseArgs == fn = "HitAng" /\ DoParseArgs("HitAng")
HitMain == fn = "HitAng" /\ DoCall("HitAng")
EneParseArgs == fn = "ClustEne" /\ DoParseArgs("ClustEne")
EneMain == fn = "ClustEne" /\ DoCall("ClustEne")
AngParseArgs == fn = "ClustAng" /\ DoParseArgs("ClustAng")
AngMain == fn = "ClustAng" /\ DoCall("ClustAng")

NextMain ==
  \/ HitParseArgs
  \/ HitMain
  \/ EneParseArgs
  \/ EneMain
  \/ AngParseArgs
  \/ AngMain

SpecMain == InitMain /\ [][NextMain]_vars

\* ------------------------------------------------- the optimization driver
\* what the driver finds on disk: each configuration file is missing, is not
\* JSON, is JSON the converter rejects (the run configuration: JSON without
\* the key eic_shell), or is as expected
DrvEnv ==
  [par : {"missing", "invalid", "unconvertible", "ok"},
   obj : {"missing", "invalid", "unconvertible", "ok"},
   run : {"missing", "invalid", "noshell", "ok"}]

\* an order of the statements that creates the experiment before anything is
\* loaded
DriverOrderExperimentFirst ==
  <<"client", "experiment", "loadpar", "loadobj", "loadrun", "shell", "convpar",
    "convobj", "runner", "scheduler", "objective", "optimize">>

\* the statements of __main__ with an effect outside the process, in the
\* order of the source
DriverOrder ==
  <<"client", "loadpar", "loadobj", "loadrun", "shell", "convpar", "convobj",
    "experiment", "runner", "scheduler", "objective", "optimize">>

\* the statement after stmt, "done" after the last
NextStmt(stmt) ==
  LET i == CHOOSE j \in DOMAIN DriverOrder : DriverOrder[j] = stmt
  IN  IF i = Len(DriverOrder) THEN "done" ELSE DriverOrder[i + 1]

\* the driver is started; did is the log of the statements completed
InitDriver ==
  /\ fn = "Driver"
  /\ coord = "none"
  /\ pc = "driver"
  /\ err = "none"
  /\ RunIdle
  /\ MainIdle
  /\ drv \in [pc : {DriverOrder[1]}, env : DrvEnv, did : {<<>>}]
  /\ OrdIdle

\* one statement: it completes and is logged, or raises and ends the driver
DrvStep(stmt, raises) ==
  /\ drv.pc = stmt
  /\ drv' = IF raises
              THEN [drv EXCEPT !.pc = "raised"]
              ELSE [drv EXCEPT !.pc = NextStmt(stmt), !.did = Append(@, stmt)]
  /\ UNCHANGED <<fn, pc, err, runVars, mainVars, ordVars>>

\* ax_client = AxClient()
DrvAxClient == fn = "Driver" /\ DrvStep("client", FALSE)
\* cfg_par = emt.ReadJsonFile(par_path)
DrvReadPar == fn = "Driver" /\ DrvStep("loadpar", drv.env.par \in {"missing", "invalid"})
\* cfg_obj = emt.ReadJsonFile(obj_path)
DrvReadObj == fn = "Driver" /\ DrvStep("loadobj", drv.env.obj \in {"missing", "invalid"})
\* cfg_run = emt.ReadJsonFile(run_path)
DrvReadRun == fn = "Driver" /\ DrvStep("loadrun", drv.env.run \in {"missing", "invalid"})
\* eic_shell = cfg_run["eic_shell"]
DrvEicShell == fn = "Driver" /\ DrvStep("shell", drv.env.run = "noshell")
\* cfg_par = att.ConvertParamConfig(cfg_par)
DrvConvertPar == fn = "Driver" /\ DrvStep("convpar", drv.env.par = "unconvertible")
\* cfg_obj = att.ConvertObjectConfig(cfg_obj)
DrvConvertObj == fn = "Driver" /\ DrvStep("convobj", drv.env.obj = "unconvertible")
\* ax_client.create_experiment(...)
DrvCreateExperiment == fn = "Driver" /\ DrvStep("experiment", FALSE)
\* runner = PanDAiDDSRunner(**panda_attrs)
DrvRunner == fn = "Driver" /\ DrvStep("runner", FALSE)
\* scheduler = AxScheduler(ax_client, runner)
DrvScheduler == fn = "Driver" /\ DrvStep("scheduler", FALSE)
\* scheduler.set_objective_function(RunObjectives)
DrvSetObjective == fn = "Driver" /\ DrvStep("objective", FALSE)
\* best_param = scheduler.run_optimization(max_trials=10)
DrvRunOptimization == fn = "Driver" /\ DrvStep("optimize", FALSE)

NextDriver ==
  \/ DrvAxClient
  \/ DrvReadPar
  \/ DrvReadObj
  \/ DrvReadRun
  \/ DrvEicShell
  \/ DrvConvertPar
  \/ DrvConvertObj
  \/ DrvCreateExperiment
  \/ DrvRunner
  \/ DrvScheduler
  \/ DrvSetObjective
  \/ DrvRunOptimization

SpecDriver == InitDriver /\ [][NextDriver]_vars

\* --------------------------- CalculateHitAngReso on a stream and a permutation
\* Whole frames, for the replay of one event stream in two orders: the hits
\* differ in angle, so that the residual of a frame shows which hit was chosen.
OrderPars ==
  {<<[pdg |-> 11, status |-> 1, angle |-> 0, energy |-> 1]>>,
   <<[pdg |-> 22, status |-> 1, angle |-> 0, energy |-> 1]>>}

OrderHitLists ==
  {<<[layer |-> 1, energy |-> 2, angle |-> 5]>>,
   <<[layer |-> 1, energy |-> 1, angle |-> 0]>>,
   <<[layer |-> 7, energy |-> 1, angle |-> 0]>>,
   <<[layer |-> 0, energy |-> 1, angle |-> 0]>>}

\* no association, or one to the first particle of the frame
OrderAssocs == {<<>>} \cup {<<[sim |-> 1, hits |-> hs]>> : hs \in OrderHitLists}

OrderFrames == [pars : OrderPars, assocs : OrderAssocs]

Perms(n) == {p \in [1..n -> 1..n] : \A i, j \in 1..n : p[i] = p[j] => i = j}

\* the accumulated residual and the scratch variables before the first frame
StartRun ==
  [hdiff |-> EmptyFn, maxenes |-> InitMaxenes, maxhits |-> EmptyFn, cluster |-> 0,
   out |-> "ok", n |-> 0]

\* scratch variables carried over from the frame before
StaleTables(run) ==
  [maxenes |-> run.maxenes, maxhits |-> run.maxhits, cluster |-> run.cluster,
   out |-> "ok"]

\* maxenes = {1 : 0.0, ...}, maxhits = dict(), cluster = None
FreshTables(run) ==
  [maxenes |-> InitMaxenes, maxhits |-> EmptyFn, cluster |-> 0, out |-> "ok"]

\* the hit loop over hs, ended by the first lookup that raises
RECURSIVE ScanFrom(_, _)
ScanFrom(tbl, hs) ==
  IF hs = <<>> THEN tbl
  ELSE LET t == ScanFrom(tbl, SubSeq(hs, 1, Len(hs) - 1))
       IN  IF t.out = "KeyError" THEN t
           ELSE LET r == ScanHit([maxenes |-> t.maxenes, maxhits |-> t.maxhits,
                                  out |-> "ok"], hs[Len(hs)])
                IN  [t EXCEPT !.maxenes = r.maxenes, !.maxhits = r.maxhits,
                              !.out = IF r.out = "KeyError" THEN "KeyError" ELSE "ok"]

\* the association loop for the primary p: an association to another particle
\* is passed over, one to p sets the cluster and scans its hits
RECURSIVE ScanAssocs(_, _, _)
ScanAssocs(tbl, p, as) ==
  IF as = <<>> THEN tbl
  ELSE LET t == ScanAssocs(tbl, p, SubSeq(as, 1, Len(as) - 1))
           a == as[Len(as)]
       IN  IF t.out = "KeyError" \/ ~SameParticle(p, a.sim) THEN t
           ELSE ScanFrom([t EXCEPT !.cluster = Len(as)], a.hits)

\* one iteration of the event loop on the frame fr
ProcessFrame(run, fr) ==
  LET p == FindPrimary(fr.pars)
      t == ScanAssocs(FreshTables(run), p, fr.assocs)
      scratch == [run EXCEPT !.maxenes = t.maxenes, !.maxhits = t.maxhits,
                             !.cluster = t.cluster, !.n = @ + 1]
  IN  IF run.out = "raised" THEN [run EXCEPT !.n = @ + 1]
      ELSE IF p = 0 THEN [run EXCEPT !.n = @ + 1]
      ELSE IF ~SetAngleOK(coord) THEN [run EXCEPT !.out = "raised", !.n = @ + 1]
      ELSE IF t.out = "KeyError" THEN [scratch EXCEPT !.out = "raised"]
      ELSE IF t.cluster = 0 THEN scratch
      ELSE IF DOMAIN t.maxhits = {} THEN [scratch EXCEPT !.out = "raised"]
      ELSE [scratch EXCEPT
              !.hdiff = Fill(@, FindBin(SelectHit(t.maxhits).angle - fr.pars[p].angle,
                                        XminDiff, XmaxDiff, NBinsDiff))]

\* one stream is given to two runs of the function, to the second in the
\* order perm
InitOrder ==
  /\ fn = "HitAng"
  /\ coord = "eta"
  /\ pc = "order"
  /\ err = "none"
  /\ RunIdle
  /\ MainIdle
  /\ DrvIdle
  /\ stream \in SeqsUpTo(OrderFrames, MaxStream)
  /\ perm \in Perms(Len(stream))
  /\ runA = StartRun
  /\ runB = StartRun

\* each run takes its next frame
OrderNextFrame ==
  /\ fn = "HitAng"
  /\ pc = "order"
  /\ runA.n < Len(stream)
  /\ runA' = ProcessFrame(runA, stream[runA.n + 1])
  /\ runB' = ProcessFrame(runB, stream[perm[runB.n + 1]])
  /\ UNCHANGED <<fn, pc, err, runVars, mainVars, drv, stream, perm>>

\* both runs have left the event loop
OrderEnd ==
  /\ fn = "HitAng"
  /\ pc = "order"
  /\ runA.n = Len(stream)
  /\ pc' = "ordered"
  /\ UNCHANGED <<fn, err, runVars, mainVars, drv, ordVars>>

NextOrder ==
  \/ OrderNextFrame
  \/ OrderEnd

SpecOrder == InitOrder /\ [][NextOrder]_vars

\* -------------------------------------------------------------- the program
Init == InitCalc \/ InitMain \/ InitDriver \/ InitOrder

Next == NextHitAng \/ NextClustEne \/ NextClustAng \/ NextMain \/ NextDriver \/ NextOrder

Spec == Init /\ [][Next]_vars

\* ------------------------------------------------------------------- claims
\* the frame just processed by the hit function filled one residual; hits
\* holds every hit of its matched associations
Contributed == fn = "HitAng" /\ pc = "loop" /\ nfill = 1

\* layers of the tracked range in which some hit of hs lies
PopulatedLayers(hs) == {hs[i].layer : i \in DOMAIN hs} \cap (1..MaxLayer)

EnergiesIn(hs, l) == {hs[i].energy : i \in {j \in DOMAIN hs : hs[j].layer = l}}

\* C1: for every frame that contributes a residual, the representative hit is
\* the highest-energy hit of the smallest populated layer, over all hits of
\* the associations that reference the primary, zero energies included.
C1_RepresentativeHit ==
  Contributed =>
    /\ hinfo.layer = Min(PopulatedLayers(hits))
    /\ hinfo.energy = Max(EnergiesIn(hits, Min(PopulatedLayers(hits))))

\* the hits of hs whose layer does not exceed the maximum
NotAbove(h) == h.layer <= MaxLayer
Below(hs) == SelectSeq(hs, NotAbove)

\* the tables after the hit loop has run over hs from fresh tables
RECURSIVE ScanAll(_)
ScanAll(hs) ==
  IF hs = <<>> THEN [maxenes |-> InitMaxenes, maxhits |-> EmptyFn, out |-> "ok"]
  ELSE ScanHit(ScanAll(SubSeq(hs, 1, Len(hs) - 1)), hs[Len(hs)])

\* C2: a hit with a layer above 6 is never stored as a per-layer maximum and
\* never changes the minimum layer: tables and representative hit are those
\* of the same frame without such hits.
C2_LayerAboveMaxIgnored ==
  fn = "HitAng" =>
    /\ \A l \in DOMAIN maxhits : l <= MaxLayer /\ maxhits[l].layer <= MaxLayer
    /\ (pc \in {"assocs", "hits"} \/ Contributed) =>
         /\ maxhits = ScanAll(Below(hits)).maxhits
         /\ maxenes = ScanAll(Below(hits)).maxenes
    /\ Contributed =>
         /\ minlayer = Min(DOMAIN ScanAll(Below(hits)).maxhits)
         /\ hinfo = SelectHit(ScanAll(Below(hits)).maxhits)

\* C2 witness: a contributing frame that held a hit above the maximum layer
C2_Witness ==
  Contributed /\ \E i \in DOMAIN hits : hits[i].layer > MaxLayer

\* C3: a frame with a matched cluster whose hits all lie above the maximum
\* layer is skipped (no entry) and the run goes on to the next frame.
C3_AllAboveMaxSkipped ==
  (/\ fn = "HitAng"
   /\ cluster # 0
   /\ hits # <<>>
   /\ \A i \in DOMAIN hits : hits[i].layer > MaxLayer)
  => (pc # "raised" /\ nfill = 0)

\* some particle of the target species with final-state status
HasTarget(pars) == \E i \in DOMAIN pars : pars[i].pdg = pdg /\ pars[i].status = 1

\* C4: a frame without a final-state particle of the target species adds no
\* entry to the residual distribution, in each of the three functions.
C4_NoTargetNoEntry ==
  (pc # "start" /\ ~HasTarget(mcpars)) => nfill = 0

\* C5: no frame contributes more than one residual: the entries of the
\* residual distribution never exceed the number of frames read.
C5_AtMostOnePerEvent ==
  /\ nfill <= 1
  /\ Entries(hdiff) + Entries(hres) <= nframes

\* C6: the truth angle used as the denominator of the relative residual of
\* the cluster-angle function is never zero.
C6_DenominatorNonzero ==
  fn = "ClustAng" => asim # 0

\* C6 witness: a zero truth angle was perturbed and its residual filled
C6_Witness ==
  /\ fn = "ClustAng"
  /\ asim = Eps
  /\ nfill >= 1
  /\ \E i \in DOMAIN mcpars : mcpars[i].pdg = pdg /\ mcpars[i].angle = 0

\* the selector, lower-cased, is outside the accepted set of the function
BadCoord ==
  \/ fn = "HitAng" /\ Lower(coord) \notin {"theta", "eta", "phi"}
  \/ fn = "ClustAng" /\ Lower(coord) \notin {"eta", "phi"}

\* C7: with a selector outside the accepted set the function fails before the
\* reader is opened: no frame read, no entry made, no file written.
C7_BadCoordFailsEarly ==
  BadCoord =>
    /\ pc \in {"start", "raised"}
    /\ pc = "raised" => err = "ValueError"
    /\ reader = "closed"
    /\ nframes = 0
    /\ hdiff = EmptyFn /\ hres = EmptyFn
    /\ hpar = 0 /\ heff = 0 /\ hclust = 0 /\ hmax = 0 /\ hlay = 0
    /\ files = EmptyFn

\* C7 witness: the cluster function has rejected "theta"
C7_Witness ==
  fn = "ClustAng" /\ coord = "theta" /\ pc = "raised" /\ err = "ValueError"

\* C8: anomalies of a frame (no primary, no populated layer, a layer out of
\* range) never abort a run of the hit function once its reader is open.
C8_AnomaliesNeverAbort ==
  (fn = "HitAng" /\ reader = "open") => pc # "raised"

\* C9: the first line of the text summary is the value the function returns.
C9_SummaryFirstLine ==
  pc = "done" =>
    /\ Replace(ofile) \in DOMAIN files
    /\ FirstLine(files[Replace(ofile)]) = Format(retval)
    /\ Parse(FirstLine(files[Replace(ofile)])) = retval

\* C9 witness: a finished cluster run whose width and mean differ
C9_Witness ==
  pc = "done" /\ fn = "ClustEne" /\ fit.reso # fit.mean /\ nframes > 0

\* the residual distribution of the running function, its bins and low edge
ResHist == IF fn = "HitAng" THEN hdiff ELSE hres
ResBins == IF fn = "HitAng" THEN NBinsDiff ELSE NBinsRes
ResXmin == IF fn = "HitAng" THEN XminDiff ELSE XminRes

\* low edge of the first and high edge of the last bin with entries
PopulatedRange ==
  <<ResXmin + Min(Populated(ResHist, ResBins)) - 1,
    ResXmin + Max(Populated(ResHist, ResBins))>>

\* C10 as claimed: in each of the three functions the fit runs from the low
\* edge of the first bin with entries to the high edge of the last one.
C10_FitOverPopulatedRange ==
  (pc \in {"save", "done"} /\ Populated(ResHist, ResBins) # {})
  => fitrange = PopulatedRange

\* C10 as amended: the hit function fits over the populated range; the two
\* cluster functions fit over the fixed range [-0.5, 0.5] of their gaussian.
C10_FitRangeByFunction ==
  pc \in {"save", "done"} =>
    IF fn = "HitAng"
      THEN Populated(hdiff, NBinsDiff) # {} => fitrange = PopulatedRange
      ELSE fitrange = <<FitLoRes, FitHiRes>>

\* C10 witness: a fitted hit run whose entries spread over two bins
C10_Witness ==
  /\ fn = "HitAng"
  /\ pc = "save"
  /\ Cardinality(Populated(hdiff, NBinsDiff)) >= 2

\* what the save step writes under the output path before the text summary
BinaryObjects == {<<"fAngRes", "hAngRes">>, <<"hRes", "fRes">>}

\* C12: for every output path the text summary goes to a path with another
\* extension, so the two paths differ and the binary file written earlier in
\* the run is still there after the summary is written.
C12_SummaryPathDiffers ==
  pc = "done" =>
    /\ Replace(ofile) # ofile
    /\ ofile \in DOMAIN files
    /\ files[ofile] \in BinaryObjects

\* C16: the per-layer table lookup never fails: every hit that passes the
\* layer > 6 rejection has a layer among the tracked keys 1..6.
C16_LookupNeverFails ==
  fn = "HitAng" =>
    /\ err # "KeyError"
    /\ \A i \in DOMAIN hits :
         hits[i].layer <= MaxLayer => hits[i].layer \in DOMAIN InitMaxenes

\* the histograms' entry counts are ordered along the event loop
CountersOrdered ==
  /\ Entries(hdiff) = hmax
  /\ hmax = hlay
  /\ hlay <= heff
  /\ heff <= hpar
  /\ hpar <= nframes

\* a step that leaves the frame without a matched cluster fills nothing but,
\* at most once, the denominator
OnlyDenominator ==
  cluster' = 0 =>
    /\ UNCHANGED <<hdiff, hmax, hlay, heff, hclust>>
    /\ hpar' \in {hpar, hpar + 1}

\* C17: after any prefix of the event stream, entries of the residual
\* histogram = entries of the max-hit-energy and min-layer histograms <=
\* entries of the efficiency numerator <= entries of the denominator <= frames
\* read; a frame with a primary and no association referencing it increases
\* only the denominator.
C17_CountersOrdered ==
  /\ [](fn = "HitAng" => CountersOrdered)
  /\ [][fn = "HitAng" => OnlyDenominator]_vars

\* C17 witness: after one frame that filled the residual, a second frame with
\* a primary has ended without a matched cluster
C17_Witness ==
  /\ fn = "HitAng"
  /\ pc = "loop"
  /\ nframes = 2
  /\ cluster = 0
  /\ hpar = 2
  /\ heff = 1
  /\ Entries(hdiff) = 1

\* the primary is the first final-state particle of the target species
PrimaryIsFirstTarget ==
  IF primary = 0 THEN ~HasTarget(mcpars)
  ELSE /\ primary \in DOMAIN mcpars
       /\ mcpars[primary].pdg = pdg /\ mcpars[primary].status = 1
       /\ \A i \in 1..(primary - 1) : ~(mcpars[i].pdg = pdg /\ mcpars[i].status = 1)

\* the cluster and the hit loop come from an association to the primary itself,
\* and with no such association the per-layer tables are as built
MatchedByIdentity ==
  (primary # 0 /\ pc \in {"loop", "assocs", "hits"}) =>
    /\ cluster # 0 => (cluster \in DOMAIN sims /\ sims[cluster] = primary)
    /\ pc = "hits" => sims[nassoc] = primary
    /\ (\A i \in DOMAIN sims : sims[i] # primary) =>
         /\ hits = <<>>
         /\ maxhits = EmptyFn
         /\ maxenes = InitMaxenes
         /\ cluster = 0

\* an association to another particle is passed over: no hit of it is read and
\* neither the tables nor the cluster change
OtherAssocPassedOver ==
  (pc = "assocs" /\ Len(sims') = Len(sims) + 1 /\ sims'[Len(sims')] # primary) =>
    UNCHANGED <<pc, maxenes, maxhits, hits, cluster, minlayer, hinfo, histVars>>

\* C14: the primary is the first truth particle in collection order with the
\* target species and generator status 1, and only associations referencing
\* that very particle contribute: an association to any other particle, one
\* with equal field values included, never reaches the per-layer tables nor
\* the representative hit.
C14_OnlyPrimaryContributes ==
  /\ [](fn = "HitAng" => (PrimaryIsFirstTarget /\ MatchedByIdentity))
  /\ [][fn = "HitAng" => OtherAssocPassedOver]_vars

\* C14 witness: of two particles with equal field values the first is the
\* primary; the association to the second was passed over and the one to the
\* first stored a hit
C14_Witness ==
  /\ fn = "HitAng"
  /\ Len(mcpars) = 2
  /\ mcpars[1] = mcpars[2]
  /\ primary = 1
  /\ sims = <<2, 1>>
  /\ cluster = 2
  /\ maxhits # EmptyFn

\* the script's call has been made or has failed
MainCalled == pc \in {"called", "raised"} /\ call # NoCall

\* C11: a script started from the command line invokes its resolution function
\* with the parsed values: every parameter of the function, collection names
\* included, takes the value of its flag and none falls back to a default.
C11_MainPassesFlags ==
  MainCalled =>
    /\ err = "none"
    /\ call.callee \in Defined(fn)
    /\ \A i \in DOMAIN Flags(fn) : Bound(fn, call)[i] = args[Flags(fn)[i]]

\* the steps the driver is to take, in their order
DriverSteps ==
  <<"loadpar", "loadobj", "loadrun", "convpar", "convobj", "experiment",
    "runner", "scheduler", "objective", "optimize">>

IsDriverStep(x) == \E i \in DOMAIN DriverSteps : DriverSteps[i] = x

IsPrefix(a, b) == Len(a) <= Len(b) /\ \A i \in DOMAIN a : a[i] = b[i]

Did(x) == \E i \in DOMAIN drv.did : drv.did[i] = x

\* a configuration that cannot be loaded or converted
BadConfig == drv.env.par # "ok" \/ drv.env.obj # "ok" \/ drv.env.run # "ok"

\* C15: the driver loads the three configurations, converts the parameter and
\* objective configurations, creates the experiment, builds runner and
\* scheduler, registers the objective function and only then starts the
\* optimization; when a configuration cannot be loaded or converted, or the
\* run configuration has no eic_shell entry, no experiment is created and no
\* optimization is started.
C15_DriverOrder ==
  fn = "Driver" =>
    /\ IsPrefix(SelectSeq(drv.did, IsDriverStep), DriverSteps)
    /\ Did("experiment") => Did("shell")
    /\ BadConfig => (~Did("experiment") /\ ~Did("optimize"))

\* C15 witness: the driver came through to the optimization run
C15_Witness ==
  /\ fn = "Driver"
  /\ drv.pc = "done"
  /\ Did("optimize")

\* what a run leaves behind: the residual distribution, or nothing when the
\* run was aborted
Outcome(run) ==
  [raised |-> run.out = "raised",
   hdiff |-> IF run.out = "raised" THEN EmptyFn ELSE run.hdiff]

\* C13: the accumulated residual distribution does not depend on the order of
\* the events: the scratch state is reset in every event, so the same stream
\* in any permuted order ends with the same bin contents (and a stream that
\* aborts the run aborts it in every order).
C13_OrderIndependent ==
  pc = "ordered" => Outcome(runA) = Outcome(runB)

\* C13 witness: two frames with different residuals, in both orders, and both
\* runs came through
C13_Witness ==
  /\ pc = "ordered"
  /\ Len(stream) >= 2
  /\ perm[1] # 1
  /\ stream[perm[1]] # stream[1]
  /\ runA.out = "ok"
  /\ Cardinality(DOMAIN runA.hdiff) >= 2
====
